---- MODULE Spec2Model ----
(***************************************************************************)
(* Model of dannyvi/minimal-compiler-frontend: the LR(1) table generator   *)
(* (regex/parsing_table.py, parser.py), the two LR drivers                 *)
(* (regex/compiler.py RegexCompiler, parser.py SDT), the regex lexer, the  *)
(* Thompson constructors (regex/regex_nfa.py) and the NFA graph / machine  *)
(* (regex/graph.py).                                                       *)
(***************************************************************************)
EXTENDS Integers, Sequences, FiniteSets, TLC

(***************************************************************************)
(* Generic helpers standing for Python built-ins.                          *)
(***************************************************************************)

\* Python's None where an integer is expected, and where a symbol is expected
None == -1

NoSymbol == "None"

\* set(seq): the set of elements of a sequence
Range(s) == {s[i] : i \in 1..Len(s)}

\* seq[:-n]: the sequence without its last n elements
DropLast(s, n) == SubSeq(s, 1, Len(s) - n)

\* seq.index(x): 1-based position of the first occurrence of x
IndexOf(s, x) == CHOOSE i \in 1..Len(s) : s[i] = x /\ \A j \in 1..(i-1) : s[j] # x

\* iterating a str (set(symbol), tuple(symbol), str + str): its characters
CharSeq(symbol) ==
    CASE symbol = "if"   -> <<"i", "f">>
      [] symbol = "else" -> <<"e", "l", "s", "e">>
      [] symbol = "S1"   -> <<"S", "1">>
      [] symbol = "S2"   -> <<"S", "2">>
      [] symbol = "epsilon" -> <<"e", "p", "s", "i", "l", "o", "n">>
      [] symbol = "EPSILON" -> <<"E", "P", "S", "I", "L", "O", "N">>
      [] OTHER           -> <<symbol>>

(***************************************************************************)
(* The two shipped grammars.  A grammar is a record: the productions in    *)
(* order, the ordered terminals and non-terminals, the augmented start     *)
(* symbol and the text produce_epsilon looks for.                          *)
(***************************************************************************)

\* regex/parsing_table.py: grammar_literal through _divide
grammar ==
    << [head |-> "R", body |-> <<"S">>],
       [head |-> "S", body |-> <<"S", "|", "D">>],
       [head |-> "S", body |-> <<"S", "D">>],
       [head |-> "S", body |-> <<"D">>],
       [head |-> "D", body |-> <<"K", "*">>],
       [head |-> "D", body |-> <<"K">>],
       [head |-> "K", body |-> <<"(", "S", ")">>],
       [head |-> "K", body |-> <<"a">>] >>

terminals == <<"(", ")", "|", "*", "a", "$">>

n_terminals == <<"S", "R", "D", "K">>

all_symbols == terminals \o n_terminals

RegexG ==
    [grammar |-> grammar, terminals |-> terminals, n_terminals |-> n_terminals,
     all_symbols |-> all_symbols, start |-> "R", eps |-> <<"epsilon">>]

\* parser.py: the demo grammar
demo_grammar ==
    << [head |-> "startsup", body |-> <<"start">>],
       [head |-> "start", body |-> <<"stmt">>],
       [head |-> "stmt", body |-> <<"if", "(", "C", ")", "S1", "else", "S2">>] >>

demo_terminals == <<"if", "(", "C", ")", "S1", "else", "S2", "$">>

demo_n_terminals == <<"startsup", "start", "stmt">>

demo_all_symbols == demo_terminals \o demo_n_terminals

DemoG ==
    [grammar |-> demo_grammar, terminals |-> demo_terminals,
     n_terminals |-> demo_n_terminals, all_symbols |-> demo_all_symbols,
     start |-> "startsup", eps |-> <<"EPSILON">>]

(***************************************************************************)
(* FIRST / FIRSTS                                                          *)
(***************************************************************************)

isnterm(G, symbol) == symbol \in Range(G.n_terminals)

isterm(G, symbol) == symbol \in Range(G.terminals)

\* 'epsilon' in [i[1] for i in grammar if i[0] == none_terminal]
produce_epsilon(G, none_terminal) ==
    \E i \in 1..Len(G.grammar) :
        G.grammar[i].head = none_terminal /\ G.grammar[i].body = G.eps

RECURSIVE first(_, _)
RECURSIVE first_body(_, _, _, _)

\* the while loop of first over one production body, from position current
first_body(G, symbol, body, current) ==
    IF current > Len(body) THEN {}
    ELSE LET here == IF body[current] # symbol THEN first(G, body[current]) ELSE {}
             rest == IF produce_epsilon(G, body[current])
                     THEN first_body(G, symbol, body, current + 1)
                     ELSE {}
         IN  here \cup rest

first(G, symbol) ==
    IF isterm(G, symbol) THEN Range(CharSeq(symbol))
    ELSE IF produce_epsilon(G, symbol) THEN Range(CharSeq(G.eps[1]))
    ELSE IF isnterm(G, symbol)
         THEN UNION { first_body(G, symbol, G.grammar[i].body, 1) :
                        i \in {j \in 1..Len(G.grammar) : G.grammar[j].head = symbol} }
    ELSE {}

RECURSIVE firsts(_, _)
firsts(G, suffix) ==
    IF Len(suffix) = 1 THEN first(G, suffix[1])
    ELSE IF ~produce_epsilon(G, suffix[1]) THEN first(G, suffix[1])
    ELSE first(G, suffix[1]) \cup firsts(G, Tail(suffix))

(***************************************************************************)
(* LR(1) items, closure, GOTO                                              *)
(***************************************************************************)

Item(symbol, body, dot, follow) ==
    [symbol |-> symbol, body |-> body, pos |-> dot, follow |-> follow]

\* get_closure.get_nterm: the non-terminal after the dot, or None
get_nterm(G, item) ==
    IF item.pos < Len(item.body) /\ isnterm(G, item.body[item.pos + 1])
    THEN item.body[item.pos + 1]
    ELSE NoSymbol

\* the items one dequeued item contributes (the body of the while loop)
closure_items_of(G, item) ==
    LET symbol == get_nterm(G, item) IN
    IF symbol = NoSymbol THEN {}
    ELSE LET suffix  == SubSeq(item.body, item.pos + 2, Len(item.body))
                          \o CharSeq(item.follow)
             termins == firsts(G, suffix)
         IN  { Item(symbol, G.grammar[p].body, 0, terminal) :
                 p \in {j \in 1..Len(G.grammar) : G.grammar[j].head = symbol},
                 terminal \in termins }

RECURSIVE closure_loop(_, _, _)
\* the worklist loop: item_set is the result so far, q the items still queued
closure_loop(G, item_set, q) ==
    IF q = {} THEN item_set
    ELSE LET item  == CHOOSE i \in q : TRUE
             fresh == closure_items_of(G, item) \ item_set
         IN  closure_loop(G, item_set \cup fresh, (q \ {item}) \cup fresh)

get_closure(G, sets) == closure_loop(G, sets, sets)

goto(G, clos, letter) ==
    get_closure(G,
        { Item(item.symbol, item.body, item.pos + 1, item.follow) :
            item \in {i \in clos : i.pos < Len(i.body) /\ i.body[i.pos + 1] = letter} })

(***************************************************************************)
(* Canonical collection                                                    *)
(***************************************************************************)

\* a Closure object: its items, its label and its goto dict
Closure(sets, label) == [sets |-> sets, label |-> label, goto |-> <<>>]

\* dict[key] = value
DictSet(d, key, value) ==
    [x \in DOMAIN d \cup {key} |-> IF x = key THEN value ELSE d[x]]

\* closure in group (Closure.__eq__ compares the item sets only)
in_group(sets, group) == \E i \in 1..Len(group) : group[i].sets = sets

find_label(sets, group) ==
    IF in_group(sets, group)
    THEN group[CHOOSE i \in 1..Len(group) : group[i].sets = sets].label
    ELSE None

\* one pass of "for literal in all_symbols" for the dequeued closure at
\* position c of the group; st = [group, label]
cg_literal(G, st, c, literal) ==
    LET go_clos == goto(G, st.group[c].sets, literal) IN
    IF go_clos = {} THEN st
    ELSE IF ~in_group(go_clos, st.group)
         THEN LET label == st.label + 1 IN
              [group |-> Append([st.group EXCEPT ![c].goto = DictSet(@, literal, label)],
                                Closure(go_clos, label)),
               label |-> label]
         ELSE LET go_label == find_label(go_clos, st.group) IN
              \* "if go_label:" is false for None and for label 0
              IF go_label # None /\ go_label # 0
              THEN [st EXCEPT !.group[c].goto = DictSet(@, literal, go_label)]
              ELSE st

RECURSIVE cg_symbols(_, _, _, _)
\* "for literal in all_symbols" from position k on
cg_symbols(G, st, c, k) ==
    IF k > Len(G.all_symbols) THEN st
    ELSE cg_symbols(G, cg_literal(G, st, c, G.all_symbols[k]), c, k + 1)

RECURSIVE cg_loop(_, _, _)
\* "while not q.empty()": the queue holds the closures in label order, so
\* the queue is the part of the group from position c on
cg_loop(G, st, c) ==
    IF c > Len(st.group) THEN st
    ELSE cg_loop(G, cg_symbols(G, st, c, 1), c + 1)

start_item(G) == Item(G.start, G.grammar[1].body, 0, "$")

closure_groups(G) ==
    cg_loop(G, [group |-> <<Closure(get_closure(G, {start_item(G)}), 0)>>,
                label |-> 0], 1).group

(***************************************************************************)
(* Table emission.  An action is a record: kind "s" (shift n), "r"         *)
(* (reduce n), "g" (goto n, the bare number of the source), "$" (accept)   *)
(* or "." (the empty cell).                                                *)
(***************************************************************************)

Act(kind, n) == [kind |-> kind, n |-> n]

ErrorCell == Act(".", 0)

\* grammar.index([item.symbol, item.body]), 0-based
production_num(G, item) ==
    IndexOf(G.grammar, [head |-> item.symbol, body |-> item.body]) - 1

\* the first loop of get_state_map without its branch for non-terminals
shift_entries_terminals_only(G, closure, input) ==
    IF input \in DOMAIN closure.goto
       /\ \E item \in closure.sets :
             item.pos < Len(item.body) /\ item.body[item.pos + 1] = input
       /\ input \in Range(G.terminals)
    THEN {Act("s", closure.goto[input])}
    ELSE {}

\* the shift / goto entry the first loop of get_state_map leaves in a cell
shift_entries(G, closure, input) ==
    IF input \in DOMAIN closure.goto
       /\ \E item \in closure.sets :
             item.pos < Len(item.body) /\ item.body[item.pos + 1] = input
    THEN IF input \in Range(G.n_terminals) THEN {Act("g", closure.goto[input])}
         ELSE IF input \in Range(G.terminals) THEN {Act("s", closure.goto[input])}
         ELSE {}
    ELSE {}

\* the reduce entries the second loop writes into a cell, one after the other
reduce_entries(G, closure, input) ==
    { Act("r", production_num(G, item)) :
        item \in {i \in closure.sets :
                    i.pos = Len(i.body) /\ i.follow = input /\ i.symbol # G.start} }

\* get_state_map looking for the accept item with the dot before the body
accept_entries_dot0(G, closure, input) ==
    IF input = "$" /\ Item(G.start, G.grammar[1].body, 0, "$") \in closure.sets
    THEN {Act("$", 0)}
    ELSE {}

\* the accept entry the last statement writes
accept_entries(G, closure, input) ==
    IF input = "$" /\ Item(G.start, G.grammar[1].body, 1, "$") \in closure.sets
    THEN {Act("$", 0)}
    ELSE {}

\* every action some rule of get_state_map writes into the cell
cell_writes(G, closure, input) ==
    shift_entries(G, closure, input) \cup reduce_entries(G, closure, input)
        \cup accept_entries(G, closure, input)

\* the values the cell can hold when get_state_map returns: each loop
\* overwrites what the loop before it wrote; when several complete items
\* write the same cell, the one the set iteration visits last stays
cell_results(G, closure, input) ==
    IF accept_entries(G, closure, input) # {} THEN accept_entries(G, closure, input)
    ELSE IF reduce_entries(G, closure, input) # {} THEN reduce_entries(G, closure, input)
    ELSE IF shift_entries(G, closure, input) # {} THEN shift_entries(G, closure, input)
    ELSE {ErrorCell}

get_state_map(G, closure) ==
    [input \in Range(G.all_symbols) |->
        CHOOSE a \in cell_results(G, closure, input) : TRUE]

\* state_map[closure.label] = row; the table is indexed by label + 1
get_states_map(G, closure_group) ==
    [l \in 1..Len(closure_group) |->
        get_state_map(G, closure_group[CHOOSE i \in 1..Len(closure_group) :
                                          closure_group[i].label = l - 1])]

\* the canonical collections of the two shipped grammars
regex_closure_groups == closure_groups(RegexG)

demo_closure_groups == closure_groups(DemoG)

\* generate_syntax_table() of regex/parsing_table.py and of parser.py
syntax_table == get_states_map(RegexG, regex_closure_groups)

demo_syntax_table == get_states_map(DemoG, demo_closure_groups)

(***************************************************************************)
(* NFA graph model (regex/graph.py).  State and Path objects live in a     *)
(* heap H: State objects are 1..H.nstate with their mutable number         *)
(* attribute in H.number, Path objects are the positions of H.paths.  A    *)
(* Graph holds a list of Path references and two State references.         *)
(***************************************************************************)

epsilon == "ε"

is_epsilon(label) == label = epsilon

EmptyHeap == [nstate |-> 0, number |-> <<>>, paths |-> <<>>]

\* State(number): allocate a State object; the new object is H.nstate
NewState(H, number) ==
    [H EXCEPT !.nstate = @ + 1, !.number = Append(@, number)]

\* Path(begin, end, label): allocate a Path object; it is Len(H.paths)
NewPath(H, begin, end, label) ==
    [H EXCEPT !.paths = Append(@, [begin |-> begin, end |-> end, label |-> label])]

Graph(paths, start, finish) == [paths |-> paths, start |-> start, finish |-> finish]

get_states(H, g) ==
    UNION { {H.paths[g.paths[i]].begin, H.paths[g.paths[i]].end} : i \in 1..Len(g.paths) }

RECURSIVE alter_paths(_, _, _, _, _)
\* "for i in self.paths" of alter_init_state, from position k of the list:
\* the Path objects are changed in place
alter_paths(hp, paths, start, state, k) ==
    IF k > Len(paths) THEN hp
    ELSE LET p == paths[k] IN
         alter_paths(IF hp[p].begin = start THEN [hp EXCEPT ![p].begin = state]
                     ELSE IF hp[p].end = start THEN [hp EXCEPT ![p].end = state]
                     ELSE hp,
                     paths, start, state, k + 1)

\* Graph.alter_init_state: the heap and the graph after the call
alter_init_state(H, g, state) ==
    [H |-> [H EXCEPT !.paths = alter_paths(H.paths, g.paths, g.start, state, 1)],
     g |-> [g EXCEPT !.start = state]]

\* [p.end for p in self.paths if p.begin is u], in path order
RECURSIVE forwards_from(_, _, _, _)
forwards_from(H, g, u, i) ==
    IF i > Len(g.paths) THEN <<>>
    ELSE (IF H.paths[g.paths[i]].begin = u THEN <<H.paths[g.paths[i]].end>> ELSE <<>>)
            \o forwards_from(H, g, u, i + 1)

RECURSIVE sort_for(_, _)
\* "for v in forwards": st = [number, name, visited, q]
sort_for(st, fw) ==
    IF fw = <<>> THEN st
    ELSE LET v == Head(fw) IN
         IF v \notin st.visited
         THEN sort_for([number  |-> [st.number EXCEPT ![v] = st.name],
                        name    |-> st.name + 1,
                        visited |-> st.visited \cup {v},
                        q       |-> Append(st.q, v)], Tail(fw))
         ELSE sort_for(st, Tail(fw))

RECURSIVE sort_while(_, _, _)
\* "while not q.empty()"
sort_while(H, g, st) ==
    IF st.q = <<>> THEN st
    ELSE sort_while(H, g,
            sort_for([st EXCEPT !.q = Tail(@)], forwards_from(H, g, Head(st.q), 1)))

\* Graph.sort_state_names: the heap with the states renamed
sort_state_names(H, g) ==
    [H EXCEPT !.number =
        sort_while(H, g, [number  |-> [H.number EXCEPT ![g.start] = 1],
                          name    |-> 2,
                          visited |-> {},
                          q       |-> <<g.start>>]).number]

(***************************************************************************)
(* Thompson constructors (regex/regex_nfa.py).  Each returns the heap      *)
(* after its allocations and the new Graph.                                *)
(***************************************************************************)

basis(H, letter) ==
    LET H1     == NewState(NewState(H, None), None)
        init   == H.nstate + 1
        finish == H.nstate + 2
        H2     == NewPath(H1, init, finish, letter)
    IN  [H |-> H2, g |-> Graph(<<Len(H2.paths)>>, init, finish)]

\* induct_or without the path from later.finish to the new finish
induct_or_one_exit(H, former, later) ==
    LET H1     == NewState(NewState(H, None), None)
        init   == H.nstate + 1
        finish == H.nstate + 2
        H2     == NewPath(NewPath(NewPath(H1,
                      init, former.start, epsilon),
                      init, later.start, epsilon),
                      former.finish, finish, epsilon)
        n      == Len(H.paths)
    IN  [H |-> H2,
         g |-> Graph(former.paths \o later.paths \o <<n + 1, n + 2, n + 3>>,
                     init, finish)]

induct_or(H, former, later) ==
    LET H1     == NewState(NewState(H, None), None)
        init   == H.nstate + 1
        finish == H.nstate + 2
        H2     == NewPath(NewPath(NewPath(NewPath(H1,
                      init, former.start, epsilon),
                      init, later.start, epsilon),
                      former.finish, finish, epsilon),
                      later.finish, finish, epsilon)
        n      == Len(H.paths)
    IN  [H |-> H2,
         g |-> Graph(former.paths \o later.paths \o <<n + 1, n + 2, n + 3, n + 4>>,
                     init, finish)]

\* induct_cat without the call of later.alter_init_state(concat)
induct_cat_no_rewire(H, former, later) ==
    [H |-> H,
     g |-> Graph(former.paths \o later.paths, former.start, later.finish)]

induct_cat(H, former, later) ==
    LET concat == former.finish
        alt    == alter_init_state(H, later, concat)
    IN  [H |-> alt.H,
         g |-> Graph(former.paths \o alt.g.paths, former.start, alt.g.finish)]

\* induct_star without the path from graph.finish back to graph.start
induct_star_no_loop(H, graph) ==
    LET H1     == NewState(NewState(H, None), None)
        init   == H.nstate + 1
        finish == H.nstate + 2
        H2     == NewPath(NewPath(NewPath(H1,
                      init, graph.start, epsilon),
                      init, finish, epsilon),
                      graph.finish, finish, epsilon)
        n      == Len(H.paths)
    IN  [H |-> H2,
         g |-> Graph(graph.paths \o <<n + 1, n + 2, n + 3>>, init, finish)]

induct_star(H, graph) ==
    LET H1     == NewState(NewState(H, None), None)
        init   == H.nstate + 1
        finish == H.nstate + 2
        H2     == NewPath(NewPath(NewPath(NewPath(H1,
                      init, graph.start, epsilon),
                      init, finish, epsilon),
                      graph.finish, finish, epsilon),
                      graph.finish, graph.start, epsilon)
        n      == Len(H.paths)
    IN  [H |-> H2,
         g |-> Graph(graph.paths \o <<n + 1, n + 2, n + 3, n + 4>>, init, finish)]

(***************************************************************************)
(* NFA machine (regex/graph.py Machine): a graph plus the frontier.        *)
(***************************************************************************)

\* e_closure.forward: the ends of the epsilon paths that begin at stt
forward(H, paths, stt) ==
    { H.paths[paths[i]].end :
        i \in {j \in 1..Len(paths) :
                 H.paths[paths[j]].begin = stt /\ is_epsilon(H.paths[paths[j]].label)} }

\* e_closure.forwards for a non-empty cl
forwards(H, paths, cl) == UNION { forward(H, paths, stt) : stt \in cl }

RECURSIVE recur_forwards(_, _, _)
recur_forwards(H, paths, target) ==
    LET next == forwards(H, paths, target) IN
    IF next \subseteq target THEN target
    ELSE recur_forwards(H, paths, target \cup next)

\* reduce() of an empty iterable with no initial value: e_closure raises
\* TypeError exactly when it is called on the empty set
e_closure_raises(clos) == clos = {}

\* Machine.e_closure, where it returns
e_closure(H, paths, clos) == recur_forwards(H, paths, clos)

\* Machine.__init__
Machine(H, g) ==
    [paths |-> g.paths, start |-> g.start, finish |-> g.finish,
     current |-> e_closure(H, g.paths, {g.start})]

\* the set step_by hands to e_closure
step_targets(H, m, letter) ==
    { H.paths[m.paths[i]].end :
        i \in {j \in 1..Len(m.paths) :
                 H.paths[m.paths[j]].begin \in m.current
                 /\ H.paths[m.paths[j]].label = letter} }

\* Machine.step_by: the TypeError of e_closure becomes NotMatchException and
\* the frontier is then left as it was
step_by(H, m, letter) ==
    LET targets == step_targets(H, m, letter) IN
    IF e_closure_raises(targets)
    THEN [raised |-> TRUE, m |-> m]
    ELSE [raised |-> FALSE, m |-> [m EXCEPT !.current = e_closure(H, m.paths, targets)]]

RECURSIVE match_loop(_, _, _)
\* "for letter in stream: self.step_by(letter)"
match_loop(H, m, stream) ==
    IF stream = <<>> THEN [raised |-> FALSE, m |-> m]
    ELSE LET r == step_by(H, m, Head(stream)) IN
         IF r.raised THEN r ELSE match_loop(H, r.m, Tail(stream))

\* match without the reset in the except branch
match_keeps_frontier(H, m, stream) ==
    LET r     == match_loop(H, m, stream)
        reset == [r.m EXCEPT !.current = e_closure(H, r.m.paths, {r.m.start})]
    IN  IF r.raised THEN [result |-> FALSE, m |-> r.m]
        ELSE IF r.m.finish \in r.m.current THEN [result |-> TRUE, m |-> reset]
        ELSE [result |-> FALSE, m |-> reset]

\* Machine.match: the returned boolean and the machine it leaves
match(H, m, stream) ==
    LET r     == match_loop(H, m, stream)
        reset == [r.m EXCEPT !.current = e_closure(H, r.m.paths, {r.m.start})]
    IN  IF r.raised THEN [result |-> FALSE, m |-> reset]
        ELSE IF r.m.finish \in r.m.current THEN [result |-> TRUE, m |-> reset]
        ELSE [result |-> FALSE, m |-> reset]

(***************************************************************************)
(* Regex front-end (regex/compiler.py, regex/parsing_table.py semantic).   *)
(* A lexeme is [type, value].  The texts on the argument stack are kept as *)
(* terms: <<"letter", c>> for the value of an `a` token, <<"basis", c>>,   *)
(* <<"induct_star", t>>, <<"induct_or", t1, t2>>, <<"induct_cat", t1, t2>>,*)
(* <<"Machine", t>>; the empty text "" is <<>>.                            *)
(***************************************************************************)

Lexeme(lextype, letter) == [type |-> lextype, value |-> letter]

NoLexeme == Lexeme("", "")

EscapeChars == {"(", ")", "|", "*", "$"}

MetaChars == {"(", ")", "|", "*"}

\* get_lexeme with `$` missing from the characters that can be escaped
get_lexeme_no_dollar(stream) ==
    IF stream = <<>>
    THEN [raised |-> "IndexError", lexeme |-> NoLexeme, stream |-> stream]
    ELSE LET letter == Head(stream)
             rest   == Tail(stream)
         IN  IF letter = "\\"
             THEN IF rest = <<>>
                  THEN [raised |-> "IndexError", lexeme |-> NoLexeme, stream |-> rest]
                  ELSE IF Head(rest) \in MetaChars
                       THEN [raised |-> "", lexeme |-> Lexeme("a", Head(rest)),
                             stream |-> Tail(rest)]
                       ELSE [raised |-> "EscapeError", lexeme |-> NoLexeme,
                             stream |-> Tail(rest)]
             ELSE IF letter \in MetaChars
                  THEN [raised |-> "", lexeme |-> Lexeme(letter, letter), stream |-> rest]
                  ELSE [raised |-> "", lexeme |-> Lexeme("a", letter), stream |-> rest]

\* Lexer.get_lexeme: raised is "" when a lexeme is returned, else the
\* exception; stream is the stream the call leaves behind
get_lexeme(stream) ==
    IF stream = <<>>
    THEN [raised |-> "IndexError", lexeme |-> NoLexeme, stream |-> stream]
    ELSE LET letter == Head(stream)
             rest   == Tail(stream)
         IN  IF letter = "\\"
             THEN IF rest = <<>>
                  THEN [raised |-> "IndexError", lexeme |-> NoLexeme, stream |-> rest]
                  ELSE IF Head(rest) \in EscapeChars
                       THEN [raised |-> "", lexeme |-> Lexeme("a", Head(rest)),
                             stream |-> Tail(rest)]
                       ELSE [raised |-> "EscapeError", lexeme |-> NoLexeme,
                             stream |-> Tail(rest)]
             ELSE IF letter \in MetaChars
                  THEN [raised |-> "", lexeme |-> Lexeme(letter, letter), stream |-> rest]
                  ELSE [raised |-> "", lexeme |-> Lexeme("a", letter), stream |-> rest]

\* one slot for every symbol of the production body
semantic_slots_body_length == <<1, 3, 2, 1, 2, 1, 3, 1>>

\* len(re.findall(r"{}", semantic[number])): the slots of each template
semantic_slots == <<1, 2, 2, 1, 1, 1, 1, 1>>

\* semantic with the templates of productions 1 and 2 exchanged
semantic_format_swapped(number, args) ==
    CASE number = 0 -> <<"Machine", args[1]>>
      [] number = 1 -> <<"induct_cat", args[1], args[2]>>
      [] number = 2 -> <<"induct_or", args[1], args[2]>>
      [] number = 4 -> <<"induct_star", args[1]>>
      [] number = 7 -> <<"basis", args[1][2]>>
      [] OTHER      -> args[1]

\* semantic[number].format(*args), number 0-based
semantic_format(number, args) ==
    CASE number = 0 -> <<"Machine", args[1]>>
      [] number = 1 -> <<"induct_or", args[1], args[2]>>
      [] number = 2 -> <<"induct_cat", args[1], args[2]>>
      [] number = 4 -> <<"induct_star", args[1]>>
      [] number = 7 -> <<"basis", args[1][2]>>
      [] OTHER      -> args[1]

RECURSIVE eval(_, _)
\* eval(a.literal_machine): the calls of the text, arguments left to right
eval(H, term) ==
    CASE term[1] = "basis" -> basis(H, term[2])
      [] term[1] = "induct_star" ->
            LET r == eval(H, term[2]) IN induct_star(r.H, r.g)
      [] term[1] = "induct_or" ->
            LET r1 == eval(H, term[2])
                r2 == eval(r1.H, term[3])
            IN  induct_or(r2.H, r1.g, r2.g)
      [] term[1] = "induct_cat" ->
            LET r1 == eval(H, term[2])
                r2 == eval(r1.H, term[3])
            IN  induct_cat(r2.H, r1.g, r2.g)

(***************************************************************************)
(* State of the model.                                                     *)
(***************************************************************************)

VARIABLES
    pc,              \* position of the running entry point
    pattern,         \* regex_compile: the pattern handed in
    stream,          \* Lexer.stream: the characters not yet consumed
    lexeme,          \* the lexeme (or token) being handed to ahead
    last,            \* TRUE once the parse loop took its end-of-input branch
    state_stack,     \* RegexCompiler.state_stack / SDT.state_stack
    arg_stack,       \* RegexCompiler.arg_stack
    literal_machine, \* RegexCompiler.literal_machine
    heap,            \* the State and Path objects allocated so far
    machine,         \* the Machine regex_compile returned
    fed,             \* the lexemes handed to ahead so far, in order
    skipped,         \* the lexemes for which ahead took no branch at all
    raised,          \* the exception that ended the entry point, "" if none
    input,           \* the string of the last Machine.match call
    result,          \* what the last Machine.match call returned
    not_matched,     \* TRUE once a match call ended in NotMatchException
    accept,          \* SDT.accept
    table_grammar,   \* get_states_map: the grammar the module was loaded with
    closure_pos,     \* get_states_map: the closure whose row is being built
    row,             \* get_state_map: the row being built
    state_map,       \* get_states_map: the rows stored so far
    pool,            \* the Graph objects built and not yet consumed
    last_op,         \* the last constructor call: heap before, arguments, result
    graph,           \* a Graph handed in by a caller
    cg,              \* closure_groups: the group, the label counter, hash misses
    call             \* the last call on that graph: its argument and outcome

vars == <<pc, pattern, stream, lexeme, last, state_stack, arg_stack,
          literal_machine, heap, machine, fed, skipped, raised, input, result, not_matched,
          accept, table_grammar, closure_pos, row, state_map, pool, last_op,
          graph, cg, call>>

\* the variables the regex entry points leave alone
not_regex_vars == <<accept, table_grammar, closure_pos, row, state_map, pool,
                    last_op, graph, call, cg>>

NoGraph == [paths |-> <<>>, start |-> 0, finish |-> 0]

NoCall == [op |-> "", arg |-> {}, raised |-> FALSE, ret |-> {}, before |-> <<>>]

NoOp == [op |-> "", H |-> [nstate |-> 0, number |-> <<>>, paths |-> <<>>],
         former |-> NoGraph, later |-> NoGraph, res |-> NoGraph]

\* the values of the variables an entry point does not use
IdleRegex ==
    /\ pattern = <<>>
    /\ stream = <<>>
    /\ arg_stack = <<>>
    /\ literal_machine = <<>>
    /\ machine = [paths |-> <<>>, start |-> 0, finish |-> 0, current |-> {}]
    /\ skipped = <<>>
    /\ input = <<>>
    /\ result = FALSE
    /\ not_matched = FALSE

IdleDriver ==
    /\ lexeme = [type |-> "", value |-> ""]
    /\ last = FALSE
    /\ state_stack = <<>>
    /\ fed = <<>>

NoCg == [group |-> <<>>, label |-> 0, misses |-> 0]

IdleTable ==
    /\ cg = NoCg
    /\ table_grammar = ""
    /\ closure_pos = 0
    /\ row = <<>>
    /\ state_map = <<>>

\* a driver runs on the table generated from the named grammar
LoadedTable(name) ==
    /\ cg = NoCg
    /\ table_grammar = name
    /\ closure_pos = 0
    /\ row = <<>>
    /\ state_map = <<>>

IdleThompson ==
    /\ pool = {}
    /\ last_op = NoOp

IdleGraph ==
    /\ graph = NoGraph
    /\ call = NoCall

NoMachine == [paths |-> <<>>, start |-> 0, finish |-> 0, current |-> {}]

\* all sequences over S of length at most n
SeqsUpTo(S, n) == UNION { [1..k -> S] : k \in 0..n }

(***************************************************************************)
(* regex_compile(pattern) followed by match calls on the machine.          *)
(***************************************************************************)

\* longest pattern, and longest matched string, that are enumerated in full
MaxPatLen == 4

MaxStrLen == 2

\* the characters patterns are made of: two plain letters, the four
\* meta-characters and the backslash
PatternChars == {"a", "$", "(", ")", "|", "*", "\\"}

\* the letters matched strings are made of
Letters == {"a", "$", "*"}

\* (a|b)*c
Example3 == <<"(", "a", "|", "b", ")", "*", "c">>

\* ab\**c*d(e|f)ka*z
Example4 == <<"a", "b", "\\", "*", "*", "c", "*", "d", "(", "e", "|", "f", ")",
              "k", "a", "*", "z">>

Patterns == SeqsUpTo(PatternChars, MaxPatLen) \cup {Example3, Example4}

ExampleStrings ==
    { <<"c">>, <<"a", "c">>, <<"b", "b", "a", "c">>, <<"a", "b">>,
      <<"a", "b", "*", "*", "*", "c", "c", "c", "d", "e", "k", "z">>,
      <<"a", "b", "d", "e", "k", "z">>, <<"a", "b", "d", "e", "g", "z">> }

Strings == SeqsUpTo(Letters, MaxStrLen) \cup ExampleStrings

\* RegexCompiler.get_action
get_action(state, literal) == syntax_table[state + 1][literal]

RegexInit ==
    /\ pc = "lex"
    /\ pattern \in Patterns
    /\ stream = pattern
    /\ lexeme = NoLexeme
    /\ last = FALSE
    /\ state_stack = <<0>>
    /\ arg_stack = <<>>
    /\ literal_machine = <<>>
    /\ heap = EmptyHeap
    /\ machine = NoMachine
    /\ fed = <<>>
    /\ skipped = <<>>
    /\ raised = ""
    /\ input = <<>>
    /\ result = FALSE
    /\ not_matched = FALSE
    /\ accept = FALSE
    /\ LoadedTable("regex")
    /\ IdleThompson
    /\ IdleGraph

\* the parse loop taking an escape with no character after it for an
\* EscapeError
GetLexeme_escape_at_end ==
    /\ UNCHANGED not_regex_vars
    /\ pc = "lex"
    /\ LET r == get_lexeme(stream) IN
       /\ stream' = r.stream
       /\ IF r.raised = "EscapeError" \/ (r.raised = "IndexError" /\ stream # <<>>)
          THEN /\ pc' = "raised"
               /\ raised' = "EscapeError"
               /\ UNCHANGED <<lexeme, last, fed>>
          ELSE /\ pc' = "ahead"
               /\ lexeme' = IF r.raised = "IndexError" THEN Lexeme("$", "$") ELSE r.lexeme
               /\ last' = (r.raised = "IndexError")
               /\ fed' = Append(fed, lexeme')
               /\ UNCHANGED raised
    /\ UNCHANGED <<pattern, state_stack, arg_stack, literal_machine, heap, machine,
                   skipped, input, result, not_matched>>

\* RegexCompiler.parse: one turn of the loop up to the call of ahead
GetLexeme ==
    /\ UNCHANGED not_regex_vars
    /\ pc = "lex"
    /\ LET r == get_lexeme(stream) IN
       /\ stream' = r.stream
       /\ IF r.raised = "EscapeError"
          THEN /\ pc' = "raised"
               /\ raised' = "EscapeError"
               /\ UNCHANGED <<lexeme, last, fed>>
          ELSE /\ pc' = "ahead"
               /\ lexeme' = IF r.raised = "IndexError" THEN Lexeme("$", "$") ELSE r.lexeme
               /\ last' = (r.raised = "IndexError")
               /\ fed' = Append(fed, lexeme')
               /\ UNCHANGED raised
    /\ UNCHANGED <<pattern, state_stack, arg_stack, literal_machine, heap, machine,
                   skipped, input, result, not_matched>>

\* where the parse loop goes when ahead returns
after_ahead == IF last THEN "parsed" ELSE "lex"

\* where the parse loop goes when ahead raises exc: an IndexError raised in
\* the try block is taken for the end of the input
ahead_raises(exc) ==
    IF exc = "IndexError" /\ ~last
    THEN /\ pc' = "ahead"
         /\ lexeme' = Lexeme("$", "$")
         /\ last' = TRUE
         /\ fed' = Append(fed, Lexeme("$", "$"))
         /\ UNCHANGED raised
    ELSE /\ pc' = "raised"
         /\ raised' = exc
         /\ UNCHANGED <<lexeme, last, fed>>

\* ahead, shift branch
Shift ==
    /\ UNCHANGED not_regex_vars
    /\ pc = "ahead"
    /\ LET action == get_action(state_stack[Len(state_stack)], lexeme.type) IN
       /\ action.kind = "s"
       /\ state_stack' = Append(state_stack, action.n)
       /\ arg_stack' = IF lexeme.type = "a"
                       THEN Append(arg_stack, <<"letter", lexeme.value>>)
                       ELSE arg_stack
    /\ pc' = after_ahead
    /\ UNCHANGED <<pattern, stream, lexeme, last, literal_machine, heap, machine,
                   fed, skipped, raised, input, result, not_matched>>

\* ahead, accept branch
Accept ==
    /\ UNCHANGED not_regex_vars
    /\ pc = "ahead"
    /\ get_action(state_stack[Len(state_stack)], lexeme.type).kind = "$"
    /\ IF arg_stack = <<>>
       THEN /\ ahead_raises("IndexError")
            /\ UNCHANGED <<arg_stack, literal_machine>>
       ELSE /\ literal_machine' = arg_stack[Len(arg_stack)]
            /\ arg_stack' = DropLast(arg_stack, 1)
            /\ pc' = after_ahead
            /\ UNCHANGED <<lexeme, last, fed, raised>>
    /\ UNCHANGED <<pattern, stream, state_stack, heap, machine, skipped, input, result, not_matched>>

\* ahead, reduce branch up to the recursive call, which examines the same
\* lexeme again
Reduce ==
    /\ UNCHANGED not_regex_vars
    /\ pc = "ahead"
    /\ LET action == get_action(state_stack[Len(state_stack)], lexeme.type)
           number == action.n
           head   == grammar[number + 1].head
           body   == grammar[number + 1].body
           slots  == semantic_slots[number + 1]
       IN
       /\ action.kind = "r"
       /\ IF Len(state_stack) <= Len(body)
          THEN \* pop from, or [-1] of, an empty list
               /\ state_stack' = <<>>
               /\ ahead_raises("IndexError")
               /\ UNCHANGED arg_stack
          ELSE LET popped == DropLast(state_stack, Len(body))
                   state  == get_action(popped[Len(popped)], head)
               IN
               IF state.kind # "g"
               THEN \* int() of a cell that is not a number
                    /\ state_stack' = popped
                    /\ ahead_raises("ValueError")
                    /\ UNCHANGED arg_stack
               ELSE /\ state_stack' = Append(popped, state.n)
                    /\ IF Len(arg_stack) < slots
                       THEN /\ arg_stack' = <<>>
                            /\ ahead_raises("IndexError")
                       ELSE /\ arg_stack' =
                                  Append(DropLast(arg_stack, slots),
                                         semantic_format(number,
                                            SubSeq(arg_stack, Len(arg_stack) - slots + 1,
                                                   Len(arg_stack))))
                            /\ UNCHANGED <<pc, lexeme, last, fed, raised>>
    /\ UNCHANGED <<pattern, stream, literal_machine, heap, machine, skipped,
                   input, result, not_matched>>

\* ahead when the action is none of shift, accept, reduce: no branch is
\* taken and ahead returns
NoBranch ==
    /\ UNCHANGED not_regex_vars
    /\ pc = "ahead"
    /\ get_action(state_stack[Len(state_stack)], lexeme.type).kind \notin {"s", "$", "r"}
    /\ skipped' = Append(skipped, lexeme)
    /\ pc' = after_ahead
    /\ UNCHANGED <<pattern, stream, lexeme, last, state_stack, arg_stack,
                   literal_machine, heap, machine, fed, raised, input, result, not_matched>>

\* regex_compile after parse: eval, sort_state_names, Machine
Compile ==
    /\ UNCHANGED not_regex_vars
    /\ pc = "parsed"
    /\ IF literal_machine = <<>>
       THEN \* eval("")
            /\ pc' = "raised"
            /\ raised' = "SyntaxError"
            /\ UNCHANGED <<heap, machine>>
       ELSE LET r == eval(heap, literal_machine)
                H == sort_state_names(r.H, r.g)
            IN  /\ heap' = H
                /\ machine' = Machine(H, r.g)
                /\ pc' = "ready"
                /\ UNCHANGED raised
    /\ UNCHANGED <<pattern, stream, lexeme, last, state_stack, arg_stack,
                   literal_machine, fed, skipped, input, result, not_matched>>

\* Machine.match(s) leaving the frontier where its loop stopped
Match_leaves_frontier ==
    /\ UNCHANGED not_regex_vars
    /\ pc \in {"ready", "returned"}
    /\ \E s \in Strings :
          LET r == match(heap, machine, s) IN
          /\ input' = s
          /\ result' = r.result
          /\ machine' = match_loop(heap, machine, s).m
          /\ not_matched' = (not_matched \/ match_loop(heap, machine, s).raised)
    /\ pc' = "returned"
    /\ UNCHANGED <<pattern, stream, lexeme, last, state_stack, arg_stack,
                   literal_machine, heap, fed, skipped, raised>>

\* Machine.match(s) on the compiled machine
Match ==
    /\ UNCHANGED not_regex_vars
    /\ pc \in {"ready", "returned"}
    /\ \E s \in Strings :
          LET r == match(heap, machine, s) IN
          /\ input' = s
          /\ result' = r.result
          /\ machine' = r.m
          /\ not_matched' = (not_matched \/ match_loop(heap, machine, s).raised)
    /\ pc' = "returned"
    /\ UNCHANGED <<pattern, stream, lexeme, last, state_stack, arg_stack,
                   literal_machine, heap, fed, skipped, raised>>

Next == GetLexeme \/ Shift \/ Accept \/ Reduce \/ NoBranch \/ Compile \/ Match

\* regex_compile on any pattern, then any sequence of match calls
Spec == RegexInit /\ [][Next]_vars

(***************************************************************************)
(* Reference definitions for the regex claims: the lexical rules of the    *)
(* lexer, the sentences of the regex grammar with the expression each      *)
(* denotes, and the language of an expression.                             *)
(***************************************************************************)

RECURSIVE RefLexFrom(_, _)
\* the lexemes of the characters p after the lexemes acc: error when an
\* escape is followed by a character that cannot be escaped, dangling when
\* the last character is an escape with nothing after it
RefLexFrom(p, acc) ==
    IF p = <<>> THEN [tokens |-> acc, error |-> FALSE, dangling |-> FALSE]
    ELSE IF p[1] = "\\"
         THEN IF Len(p) = 1 THEN [tokens |-> acc, error |-> FALSE, dangling |-> TRUE]
              ELSE IF p[2] \in {"(", ")", "|", "*", "$"}
                   THEN RefLexFrom(SubSeq(p, 3, Len(p)), Append(acc, Lexeme("a", p[2])))
                   ELSE [tokens |-> acc, error |-> TRUE, dangling |-> FALSE]
         ELSE IF p[1] \in {"(", ")", "|", "*"}
              THEN RefLexFrom(Tail(p), Append(acc, Lexeme(p[1], p[1])))
              ELSE RefLexFrom(Tail(p), Append(acc, Lexeme("a", p[1])))

RefLex(p) == RefLexFrom(p, <<>>)

RECURSIVE RefS(_)
RECURSIVE RefD(_)
RECURSIVE RefK(_)

\* the expressions K derives from the lexemes t:  K -> ( S )  |  a
RefK(t) ==
    IF Len(t) = 1 /\ t[1].type = "a" THEN { <<"basis", t[1].value>> }
    ELSE IF Len(t) >= 3 /\ t[1].type = "(" /\ t[Len(t)].type = ")"
         THEN RefS(SubSeq(t, 2, Len(t) - 1))
         ELSE {}

\* D -> K *  |  K
RefD(t) ==
    IF Len(t) >= 2 /\ t[Len(t)].type = "*"
    THEN { <<"induct_star", k>> : k \in RefK(DropLast(t, 1)) }
    ELSE RefK(t)

\* S -> S | D  |  S D  |  D
RefS(t) ==
    RefD(t)
    \cup UNION { IF RefD(SubSeq(t, i + 1, Len(t))) = {} THEN {}
                 ELSE { <<"induct_cat", l, r>> :
                          l \in RefS(SubSeq(t, 1, i)),
                          r \in RefD(SubSeq(t, i + 1, Len(t))) } :
                 i \in 1..(Len(t) - 1) }
    \cup UNION { IF t[i].type # "|" \/ RefD(SubSeq(t, i + 1, Len(t))) = {} THEN {}
                 ELSE { <<"induct_or", l, r>> :
                          l \in RefS(SubSeq(t, 1, i - 1)),
                          r \in RefD(SubSeq(t, i + 1, Len(t))) } :
                 i \in 2..(Len(t) - 1) }

RECURSIVE LangT(_, _)
\* s is in the language of the expression e
LangT(e, s) ==
    CASE e[1] = "basis" -> s = <<e[2]>>
      [] e[1] = "induct_or" -> LangT(e[2], s) \/ LangT(e[3], s)
      [] e[1] = "induct_cat" ->
            \E k \in 0..Len(s) :
                LangT(e[3], SubSeq(s, k + 1, Len(s))) /\ LangT(e[2], SubSeq(s, 1, k))
      [] e[1] = "induct_star" ->
            \/ s = <<>>
            \/ \E k \in 1..Len(s) :
                  LangT(e[2], SubSeq(s, 1, k)) /\ LangT(e, SubSeq(s, k + 1, Len(s)))

\* the lexemes handed to ahead, without the `$` the parse loop adds
fed_tokens == IF last THEN DropLast(fed, 1) ELSE fed

\* s is a prefix of t
IsPrefix(s, t) == Len(s) <= Len(t) /\ s = SubSeq(t, 1, Len(s))

(***************************************************************************)
(* Claims about regex_compile and Machine.match (specification Spec).      *)
(***************************************************************************)

\* the pattern is a sentence of the regex grammar: it lexes without error
\* and its lexemes derive from S
Derivable ==
    LET lx == RefLex(pattern) IN
    ~lx.error /\ ~lx.dangling /\ RefS(lx.tokens) # {}

\* the expression the pattern denotes
Denoted == CHOOSE e \in RefS(RefLex(pattern).tokens) : TRUE

C2_MatchResetsFrontier ==
    pc = "returned" => machine.current = e_closure(heap, machine.paths, {machine.start})

\* match has returned false because a letter had no transition from the
\* frontier (step_by raised on the second letter)
C2_Witness ==
    /\ pc = "returned"
    /\ ~result
    /\ Len(input) = 2
    /\ ~step_by(heap, machine, input[1]).raised
    /\ match_loop(heap, machine, input).raised

\* C19: whatever match calls were made before on the machine, and however
\* they ended, a match call returns what a machine freshly built from the
\* same graph returns for the same string.
C19_MatchesAreIndependent ==
    pc = "returned" =>
        result = match(heap, Machine(heap, [paths |-> machine.paths,
                                            start |-> machine.start,
                                            finish |-> machine.finish]), input).result

\* a match call has returned true on a machine on which an earlier match
\* call had failed on a letter with no transition from the frontier
C19_Witness ==
    /\ pc = "returned"
    /\ not_matched
    /\ result
    /\ input # <<>>

\* C3: a token that meets an error cell is never discarded, and a machine
\* is produced only when the tokens fed form a sentence of the grammar.
C3_ErrorCellRaisesParseError ==
    /\ skipped = <<>>
    /\ pc \in {"ready", "returned"} => RefS(fed_tokens) # {}

\* C6: the lexemes handed to the driver are, in input order, the lexemes
\* the lexical rules give for the pattern; EscapeError is raised exactly at
\* an escape of a character that cannot be escaped.
C6_LexerRules ==
    LET r == RefLex(pattern) IN
    /\ IsPrefix(fed_tokens, r.tokens)
    /\ raised = "EscapeError" => r.error /\ fed_tokens = r.tokens
    /\ (last /\ ~r.dangling) => ~r.error /\ fed_tokens = r.tokens
    /\ (r.error /\ fed_tokens = r.tokens /\ pc # "lex" /\ pc # "ahead")
          => raised = "EscapeError"

\* C21: when the lexer reaches a backslash that is the last character of
\* the pattern, get_lexeme consumes it and signals the end of the input, no
\* EscapeError is raised, `$` is fed, and the lexemes handed to the driver
\* are exactly those of the pattern without that backslash, then `$`.
C21_TrailingBackslashEndsInput ==
    RefLex(pattern).dangling =>
        LET q == RefLex(DropLast(pattern, 1)) IN
        /\ raised # "EscapeError"
        /\ IsPrefix(fed_tokens, q.tokens)
        /\ last => fed = Append(q.tokens, Lexeme("$", "$"))
        /\ stream = <<>> => (last /\ fed_tokens = q.tokens)

\* the parse loop has ended on a pattern whose last character is a lone
\* backslash: the driver was fed the lexemes of a* and then `$`
C21_Witness ==
    /\ pattern = <<"a", "*", "\\">>
    /\ last
    /\ stream = <<>>
    /\ raised = ""
    /\ pc = "ready"
    /\ fed = <<Lexeme("a", "a"), Lexeme("*", "*"), Lexeme("$", "$")>>

\* a pattern with an escaped `$`, an unescaped meta-character and a plain
\* letter has been lexed to its end
C6_Witness ==
    /\ last
    /\ pattern = <<"\\", "$", "*", "a">>
    /\ fed = <<Lexeme("a", "$"), Lexeme("*", "*"), Lexeme("a", "a"), Lexeme("$", "$")>>

(***************************************************************************)
(* The demo driver (parser.py SDT) fed by a token stream.                  *)
(***************************************************************************)

\* longest token stream that is fed
MaxTokens == 8

\* tokenizer.py: the token types the tokenizer produces (delimiter,
\* keyword, node); `$` is fed by SDT.parse only
token_types == {"(", ")", "if", "else", "S1", "S2", "C"}

\* tokenizer.py Token(typ, value) with value = typ
Token(typ) == [type |-> typ, value |-> typ]

\* SDT.get_action
sdt_get_action(state, literal) == demo_syntax_table[state + 1][literal]

\* the variables the demo driver leaves alone
not_sdt_vars == <<pattern, stream, arg_stack, literal_machine, heap, machine,
                  skipped, input, result, not_matched, table_grammar, closure_pos, row,
                  state_map, pool, last_op, graph, call, cg>>

SdtInit ==
    /\ pc = "lex"
    /\ lexeme = NoLexeme
    /\ last = FALSE
    /\ state_stack = <<0>>
    /\ fed = <<>>
    /\ raised = ""
    /\ accept = FALSE
    /\ heap = EmptyHeap
    /\ IdleRegex
    /\ LoadedTable("demo")
    /\ IdleThompson
    /\ IdleGraph

\* SDT.parse: next(token_stream) returns a token
SdtNextToken ==
    /\ pc = "lex"
    /\ Len(fed) < MaxTokens
    /\ \E typ \in token_types :
          /\ lexeme' = Token(typ)
          /\ fed' = Append(fed, Token(typ))
    /\ pc' = "ahead"
    /\ UNCHANGED <<last, state_stack, raised, accept>>
    /\ UNCHANGED not_sdt_vars

\* SDT.parse: next(token_stream) raises StopIteration and `$` is fed
SdtStopIteration ==
    /\ pc = "lex"
    /\ lexeme' = Token("$")
    /\ fed' = Append(fed, Token("$"))
    /\ last' = TRUE
    /\ pc' = "ahead"
    /\ UNCHANGED <<state_stack, raised, accept>>
    /\ UNCHANGED not_sdt_vars

\* where SDT.parse goes when ahead returns
sdt_after_ahead == IF last THEN "done" ELSE "lex"

\* SDT.ahead, shift branch
SdtShift ==
    /\ pc = "ahead"
    /\ LET action == sdt_get_action(state_stack[Len(state_stack)], lexeme.type) IN
       /\ action.kind = "s"
       /\ state_stack' = Append(state_stack, action.n)
    /\ pc' = sdt_after_ahead
    /\ UNCHANGED <<lexeme, last, fed, raised, accept>>
    /\ UNCHANGED not_sdt_vars

\* SDT.ahead, accept branch
SdtAccept ==
    /\ pc = "ahead"
    /\ sdt_get_action(state_stack[Len(state_stack)], lexeme.type).kind = "$"
    /\ accept' = TRUE
    /\ pc' = sdt_after_ahead
    /\ UNCHANGED <<lexeme, last, state_stack, fed, raised>>
    /\ UNCHANGED not_sdt_vars

\* SDT.ahead, reduce branch up to the recursive call on the same token
SdtReduce ==
    /\ pc = "ahead"
    /\ LET action == sdt_get_action(state_stack[Len(state_stack)], lexeme.type)
           head   == demo_grammar[action.n + 1].head
           body   == demo_grammar[action.n + 1].body
       IN
       /\ action.kind = "r"
       /\ IF Len(state_stack) <= Len(body)
          THEN /\ state_stack' = <<>>
               /\ pc' = "raised"
               /\ raised' = "IndexError"
          ELSE LET popped == DropLast(state_stack, Len(body))
                   state  == sdt_get_action(popped[Len(popped)], head)
               IN  IF state.kind # "g"
                   THEN /\ state_stack' = popped
                        /\ pc' = "raised"
                        /\ raised' = "ValueError"
                   ELSE /\ state_stack' = Append(popped, state.n)
                        /\ UNCHANGED <<pc, raised>>
    /\ UNCHANGED <<lexeme, last, fed, accept>>
    /\ UNCHANGED not_sdt_vars

\* SDT.ahead, else branch: raise SyntaxError
SdtError ==
    /\ pc = "ahead"
    /\ sdt_get_action(state_stack[Len(state_stack)], lexeme.type).kind \notin {"s", "$", "r"}
    /\ pc' = "raised"
    /\ raised' = "SyntaxError"
    /\ UNCHANGED <<lexeme, last, state_stack, fed, accept>>
    /\ UNCHANGED not_sdt_vars

NextSDT ==
    SdtNextToken \/ SdtStopIteration \/ SdtShift \/ SdtAccept \/ SdtReduce \/ SdtError

\* SDT().parse(tokens) for any token stream
SpecSDT == SdtInit /\ [][NextSDT]_vars

\* the token types fed so far, without the `$` SDT.parse adds
fed_types == [i \in 1..Len(fed_tokens) |-> fed_tokens[i].type]

Statement == <<"if", "(", "C", ")", "S1", "else", "S2">>

\* C4: the demo driver ends with accept = true exactly for the stream
\* if ( C ) S1 else S2; every other stream ends in a SyntaxError with accept
\* false; for the stream if ( C ) S1 the five tokens are shifted without
\* error and the error is raised when `$` is fed.
C4_DemoAcceptsExactlyTheStatement ==
    /\ accept => (last /\ fed_types = Statement /\ raised = "")
    /\ pc = "done" => (accept /\ fed_types = Statement)
    /\ pc = "raised" => (raised = "SyntaxError" /\ ~accept
                         /\ ~(last /\ fed_types = Statement))
    /\ (~last /\ IsPrefix(fed_types, Statement) /\ pc = "lex")
          => (raised = "" /\ Len(state_stack) = Len(fed_types) + 1)
    /\ (last /\ fed_types = SubSeq(Statement, 1, 5) /\ pc # "ahead")
          => (pc = "raised" /\ raised = "SyntaxError" /\ Len(state_stack) = 6)

\* the whole statement has been fed and accepted
C4_Witness ==
    /\ pc = "done"
    /\ accept
    /\ fed_types = Statement

(***************************************************************************)
(* get_states_map, row by row, for the module loaded with one of the       *)
(* shipped grammars or with an altered regex grammar (spec section 6:      *)
(* GrammarConflict arises only if the embedded grammar is altered).        *)
(***************************************************************************)

\* the regex grammar with D replaced by S at the right of productions 1 and
\* 2 (S -> S|S, S -> SS), which makes it ambiguous
altered_grammar ==
    [grammar EXCEPT ![2].body = <<"S", "|", "S">>, ![3].body = <<"S", "S">>]

AlteredG == [RegexG EXCEPT !.grammar = altered_grammar]

altered_closure_groups == closure_groups(AlteredG)

GrammarNames == {"regex", "demo", "altered"}

GrammarOf(name) ==
    CASE name = "regex" -> RegexG
      [] name = "demo" -> DemoG
      [] name = "altered" -> AlteredG

GroupOf(name) ==
    CASE name = "regex" -> regex_closure_groups
      [] name = "demo" -> demo_closure_groups
      [] name = "altered" -> altered_closure_groups

\* row = ["." for i in all_symbols]
empty_row(G) == [sym \in Range(G.all_symbols) |-> ErrorCell]

\* the variables table emission leaves alone
not_table_vars == <<pattern, stream, lexeme, last, state_stack, arg_stack,
                    literal_machine, heap, machine, fed, skipped, input, result, not_matched,
                    accept, pool, last_op, graph, call, cg>>

TableInit ==
    /\ pc = "shifts"
    /\ cg = NoCg
    /\ table_grammar \in GrammarNames
    /\ closure_pos = 1
    /\ row = empty_row(GrammarOf(table_grammar))
    /\ state_map = [l \in 1..Len(GroupOf(table_grammar)) |-> <<>>]
    /\ raised = ""
    /\ accept = FALSE
    /\ heap = EmptyHeap
    /\ IdleRegex
    /\ IdleDriver
    /\ IdleThompson
    /\ IdleGraph

\* get_state_map, first loop: the goto and shift entries of the row
RowShifts ==
    /\ pc = "shifts"
    /\ LET G == GrammarOf(table_grammar)
           closure == GroupOf(table_grammar)[closure_pos]
       IN  row' = [sym \in Range(G.all_symbols) |->
                     IF shift_entries(G, closure, sym) # {}
                     THEN CHOOSE a \in shift_entries(G, closure, sym) : TRUE
                     ELSE row[sym]]
    /\ pc' = "reduces"
    /\ UNCHANGED <<table_grammar, closure_pos, state_map, raised>>
    /\ UNCHANGED not_table_vars

\* the rows the second loop of get_state_map can leave: every complete item
\* writes its reduce entry, and of several items writing one cell the one
\* the set iteration visits last stays
RECURSIVE reduce_rows(_, _, _, _)
reduce_rows(G, closure, r, k) ==
    IF k > Len(G.all_symbols) THEN {r}
    ELSE LET sym == G.all_symbols[k]
             entries == reduce_entries(G, closure, sym)
         IN  IF entries = {} THEN reduce_rows(G, closure, r, k + 1)
             ELSE UNION {reduce_rows(G, closure, [r EXCEPT ![sym] = a], k + 1) :
                           a \in entries}

\* get_state_map, second loop: the reduce entries of the row
RowReduces ==
    /\ pc = "reduces"
    /\ row' \in reduce_rows(GrammarOf(table_grammar),
                            GroupOf(table_grammar)[closure_pos], row, 1)
    /\ pc' = "accept"
    /\ UNCHANGED <<table_grammar, closure_pos, state_map, raised>>
    /\ UNCHANGED not_table_vars

\* get_state_map, accept statement, and state_map[closure.label] = row
RowAccept ==
    /\ pc = "accept"
    /\ LET G == GrammarOf(table_grammar)
           group == GroupOf(table_grammar)
           closure == group[closure_pos]
           done == [sym \in Range(G.all_symbols) |->
                      IF accept_entries(G, closure, sym) # {}
                      THEN Act("$", 0)
                      ELSE row[sym]]
       IN  /\ state_map' = [state_map EXCEPT ![closure.label + 1] = done]
           /\ IF closure_pos = Len(group)
              THEN /\ pc' = "returned"
                   /\ row' = done
                   /\ UNCHANGED closure_pos
              ELSE /\ pc' = "shifts"
                   /\ row' = empty_row(G)
                   /\ closure_pos' = closure_pos + 1
    /\ UNCHANGED <<table_grammar, raised>>
    /\ UNCHANGED not_table_vars

NextTable == RowShifts \/ RowReduces \/ RowAccept

\* get_states_map(closure_groups()) for each grammar
SpecTable == TableInit /\ [][NextTable]_vars

\* C5: table generation returns a table only when no cell was written with
\* two different actions, and otherwise fails with GrammarConflict.
C5_ConflictRaisesGrammarConflict ==
    pc = "returned" =>
        \A i \in 1..Len(GroupOf(table_grammar)) :
            \A sym \in Range(GrammarOf(table_grammar).all_symbols) :
                Cardinality(cell_writes(GrammarOf(table_grammar),
                                        GroupOf(table_grammar)[i], sym)) <= 1

(***************************************************************************)
(* The Thompson constructors called directly (regex/regex_nfa.py): graphs  *)
(* are built from basis graphs, and every graph is an argument of at most  *)
(* one later constructor call.                                             *)
(***************************************************************************)

\* constructor calls that allocate states, and the longest string matched
MaxAllocs == 4
MaxWord == 3

ThompsonLetters == {"a", "b"}

Words == SeqsUpTo(ThompsonLetters, MaxWord)

not_thompson_vars == <<pattern, stream, lexeme, last, state_stack, arg_stack,
                       literal_machine, machine, fed, skipped, raised, input,
                       result, not_matched, accept, table_grammar, closure_pos, row,
                       state_map, graph, call, cg>>

ThompsonInit ==
    /\ pc = "build"
    /\ heap = EmptyHeap
    /\ pool = {}
    /\ last_op = NoOp
    /\ raised = ""
    /\ accept = FALSE
    /\ IdleRegex
    /\ IdleDriver
    /\ IdleTable
    /\ IdleGraph

\* the two State() calls of basis, induct_or and induct_star stay in bound
CanAllocate == heap.nstate + 2 <= 2 * MaxAllocs

\* basis(letter)
TBasis ==
    /\ CanAllocate
    /\ \E letter \in ThompsonLetters :
          LET r == basis(heap, letter) IN
          /\ heap' = r.H
          /\ pool' = pool \cup {r.g}
          /\ last_op' = [op |-> "basis", H |-> heap, former |-> NoGraph,
                         later |-> NoGraph, res |-> r.g]
    /\ UNCHANGED pc
    /\ UNCHANGED not_thompson_vars

\* induct_or(former, later)
TOr ==
    /\ CanAllocate
    /\ \E former \in pool : \E later \in pool \ {former} :
          LET r == induct_or(heap, former, later) IN
          /\ heap' = r.H
          /\ pool' = (pool \ {former, later}) \cup {r.g}
          /\ last_op' = [op |-> "or", H |-> heap, former |-> former,
                         later |-> later, res |-> r.g]
    /\ UNCHANGED pc
    /\ UNCHANGED not_thompson_vars

\* induct_cat(former, later)
TCat ==
    /\ \E former \in pool : \E later \in pool \ {former} :
          LET r == induct_cat(heap, former, later) IN
          /\ heap' = r.H
          /\ pool' = (pool \ {former, later}) \cup {r.g}
          /\ last_op' = [op |-> "cat", H |-> heap, former |-> former,
                         later |-> later, res |-> r.g]
    /\ UNCHANGED pc
    /\ UNCHANGED not_thompson_vars

\* induct_star(graph)
TStar ==
    /\ CanAllocate
    /\ \E g \in pool :
          LET r == induct_star(heap, g) IN
          /\ heap' = r.H
          /\ pool' = (pool \ {g}) \cup {r.g}
          /\ last_op' = [op |-> "star", H |-> heap, former |-> g,
                         later |-> NoGraph, res |-> r.g]
    /\ UNCHANGED pc
    /\ UNCHANGED not_thompson_vars

NextThompson == TBasis \/ TOr \/ TCat \/ TStar

SpecThompson == ThompsonInit /\ [][NextThompson]_vars

\* Machine(g).match(s), on the objects as heap H holds them
accepts(H, g, s) == match(H, Machine(H, g), s).result

\* g is what basis(letter) returns
is_basis(H, g, letter) ==
    /\ Len(g.paths) = 1
    /\ H.paths[g.paths[1]] = [begin |-> g.start, end |-> g.finish, label |-> letter]
    /\ g.start # g.finish

\* s = uv with u accepted by g1 and v accepted by g2
CatAcc(H, g1, g2, s) ==
    \E k \in 0..Len(s) :
        accepts(H, g1, SubSeq(s, 1, k)) /\ accepts(H, g2, SubSeq(s, k + 1, Len(s)))

RECURSIVE StarAcc(_, _, _)
\* s is a finite concatenation (possibly empty) of strings accepted by g
StarAcc(H, g, s) ==
    \/ s = <<>>
    \/ \E k \in 1..Len(s) :
          accepts(H, g, SubSeq(s, 1, k)) /\ StarAcc(H, g, SubSeq(s, k + 1, Len(s)))

\* C7: the machine over induct_cat(G1, G2) accepts exactly the strings uv
\* with u accepted by G1 and v accepted by G2 (so cat(basis(a), basis(b))
\* accepts ab and no other string of length 2); the result starts at
\* G1.start, finishes at G2.finish, allocates no state, and none of its
\* paths refers to the former start of G2.
C7_CatLanguageAndStructure ==
    last_op.op = "cat" =>
        LET H0 == last_op.H
            g1 == last_op.former
            g2 == last_op.later
            r  == last_op.res
        IN  /\ r.start = g1.start
            /\ r.finish = g2.finish
            /\ heap.nstate = H0.nstate
            /\ \A i \in 1..Len(r.paths) :
                  /\ heap.paths[r.paths[i]].begin # g2.start
                  /\ heap.paths[r.paths[i]].end # g2.start
            /\ \A s \in Words : accepts(heap, r, s) <=> CatAcc(H0, g1, g2, s)
            /\ is_basis(H0, g1, "a") /\ is_basis(H0, g2, "b") =>
                  \A s \in Words : Len(s) = 2 => (accepts(heap, r, s) <=> s = <<"a", "b">>)

C7_Witness ==
    /\ last_op.op = "cat"
    /\ is_basis(last_op.H, last_op.former, "a")
    /\ is_basis(last_op.H, last_op.later, "b")
    /\ accepts(heap, last_op.res, <<"a", "b">>)

\* C8: the machine over induct_star(G) accepts the empty string and every
\* finite concatenation of strings accepted by G, and no other string.
C8_StarLanguage ==
    last_op.op = "star" =>
        \A s \in Words :
            accepts(heap, last_op.res, s) <=> StarAcc(last_op.H, last_op.former, s)

C8_Witness ==
    /\ last_op.op = "star"
    /\ accepts(heap, last_op.res, <<>>)
    /\ accepts(heap, last_op.res, <<"a", "b", "a">>)
    /\ ~accepts(heap, last_op.res, <<"b">>)

(***************************************************************************)
(* Graph.sort_state_names and Machine.e_closure called on a Graph a caller *)
(* built directly with State, Path and Graph (regex/graph.py).             *)
(***************************************************************************)

\* the most State objects and the most Path objects of such a graph
MaxFreeStates == 3
MaxFreePaths == 3

FreeLabels == {epsilon, "a"}

PathRecords(n) == [begin : 1..n, end : 1..n, label : FreeLabels]

not_graph_vars == <<pattern, stream, lexeme, last, state_stack, arg_stack,
                    literal_machine, machine, fed, skipped, raised, input,
                    result, not_matched, accept, table_grammar, closure_pos, row, state_map,
                    pool, last_op, cg>>

GraphInit ==
    /\ pc = "given"
    /\ \E n \in 1..MaxFreeStates :
          \E ps \in SeqsUpTo(PathRecords(n), MaxFreePaths) :
             /\ heap = [nstate |-> n, number |-> [i \in 1..n |-> None], paths |-> ps]
             /\ graph = Graph([i \in 1..Len(ps) |-> i], 1, n)
    /\ call = NoCall
    /\ raised = ""
    /\ accept = FALSE
    /\ IdleRegex
    /\ IdleDriver
    /\ IdleTable
    /\ IdleThompson

\* the states of the graph: those of its paths, and its start
graph_states(H, g) == get_states(H, g) \cup {g.start}

\* graph.sort_state_names()
SortStateNames ==
    /\ pc = "given"
    /\ heap' = sort_state_names(heap, graph)
    /\ call' = [op |-> "sort_state_names", arg |-> {}, raised |-> FALSE,
                ret |-> {}, before |-> heap.number]
    /\ pc' = "called"
    /\ UNCHANGED graph
    /\ UNCHANGED not_graph_vars

\* Machine(graph).e_closure(clos) for a set clos of states of the graph
EClosure ==
    /\ pc = "given"
    /\ \E clos \in SUBSET graph_states(heap, graph) :
          call' = [op |-> "e_closure", arg |-> clos,
                   raised |-> e_closure_raises(clos),
                   ret |-> IF e_closure_raises(clos) THEN {}
                           ELSE e_closure(heap, graph.paths, clos),
                   before |-> heap.number]
    /\ pc' = "called"
    /\ UNCHANGED <<heap, graph>>
    /\ UNCHANGED not_graph_vars

\* graph.alter_init_state(state) for a State other than the start
AlterInitState ==
    /\ pc = "given"
    /\ \E state \in (1..heap.nstate) \ {graph.start} :
          LET r == alter_init_state(heap, graph, state) IN
          /\ heap' = r.H
          /\ graph' = r.g
          /\ call' = [op |-> "alter_init_state", arg |-> {state}, raised |-> FALSE,
                      ret |-> {graph.start}, before |-> heap.paths]
    /\ pc' = "called"
    /\ UNCHANGED not_graph_vars

NextGraph == SortStateNames \/ EClosure \/ AlterInitState

SpecGraph == GraphInit /\ [][NextGraph]_vars

RECURSIVE Within(_, _, _)
\* the states at most k paths away from start
Within(H, g, k) ==
    IF k = 0 THEN {g.start}
    ELSE LET W == Within(H, g, k - 1) IN
         W \cup { H.paths[g.paths[i]].end :
                    i \in {j \in 1..Len(g.paths) : H.paths[g.paths[j]].begin \in W} }

AllReachable(H, g) == graph_states(H, g) \subseteq Within(H, g, H.nstate)

\* breadth-first distance of a reachable state from start
Dist(H, g, u) == CHOOSE k \in 0..H.nstate :
                    /\ u \in Within(H, g, k)
                    /\ \A l \in 0..(k - 1) : u \notin Within(H, g, l)

RECURSIVE Reaching(_, _, _)
\* the states from which finish is at most k paths away
Reaching(H, g, k) ==
    IF k = 0 THEN {g.finish}
    ELSE LET W == Reaching(H, g, k - 1) IN
         W \cup { H.paths[g.paths[i]].begin :
                    i \in {j \in 1..Len(g.paths) : H.paths[g.paths[j]].end \in W} }

\* C20: every graph built by basis, induct_or, induct_cat and induct_star,
\* each input graph used at most once, has a start different from its finish,
\* no path ending at its start, no path beginning at its finish, and every
\* state of its paths is reachable from start and reaches finish.
C20_BuiltGraphsAreWellFormed ==
    \A g \in pool :
        /\ g.start # g.finish
        /\ \A i \in 1..Len(g.paths) :
              /\ heap.paths[g.paths[i]].end # g.start
              /\ heap.paths[g.paths[i]].begin # g.finish
        /\ get_states(heap, g) \subseteq Within(heap, g, heap.nstate)
        /\ get_states(heap, g) \subseteq Reaching(heap, g, heap.nstate)

\* induct_cat has joined two composed graphs; every state of the result is
\* on a way from start to finish, one of them strictly between the two
C20_Witness ==
    /\ last_op.op = "cat"
    /\ last_op.res \in pool
    /\ \E i, j \in 1..Len(last_op.res.paths) : i # j /\
          /\ heap.paths[last_op.res.paths[i]].end = heap.paths[last_op.res.paths[j]].begin
          /\ heap.paths[last_op.res.paths[i]].end \notin {last_op.res.start, last_op.res.finish}
    /\ Len(last_op.res.paths) >= 9
    /\ get_states(heap, last_op.res) \subseteq Within(heap, last_op.res, heap.nstate)
    /\ get_states(heap, last_op.res) \subseteq Reaching(heap, last_op.res, heap.nstate)

\* C9: after sort_state_names on a graph with N states all reachable from
\* start, paths ending at start allowed, the names are exactly 1..N with no
\* duplicates, start is named 1, and names follow breadth-first order.
C9_SortNamesOneToN ==
    (call.op = "sort_state_names" /\ AllReachable(heap, graph)) =>
        LET S == graph_states(heap, graph)
            N == Cardinality(S)
        IN  /\ { heap.number[u] : u \in S } = 1..N
            /\ heap.number[graph.start] = 1
            /\ \A u, v \in S :
                  Dist(heap, graph, u) < Dist(heap, graph, v)
                      => heap.number[u] < heap.number[v]

\* T is closed under the epsilon paths of g
EpsClosed(H, g, T) ==
    \A i \in 1..Len(g.paths) :
        (H.paths[g.paths[i]].begin \in T /\ is_epsilon(H.paths[g.paths[i]].label))
            => H.paths[g.paths[i]].end \in T

\* the smallest superset of S closed under epsilon paths
LeastClosed(H, g, S) ==
    { x \in graph_states(H, g) :
        \A T \in SUBSET graph_states(H, g) :
            (S \subseteq T /\ EpsClosed(H, g, T)) => x \in T }

\* C10: for every set S of states of the graph, e_closure(S) returns the
\* smallest superset of S closed under epsilon paths, and e_closure of the
\* result returns the result.
C10_EClosureLeastClosedSuperset ==
    call.op = "e_closure" =>
        /\ ~call.raised
        /\ call.ret = LeastClosed(heap, graph, call.arg)
        /\ ~e_closure_raises(call.ret)
        /\ e_closure(heap, graph.paths, call.ret) = call.ret

(***************************************************************************)
(* generate_syntax_table, with closure_groups one dequeued closure at a    *)
(* time.  "go_clos not in group" looks the closure up by Closure.__hash__, *)
(* the hash of the text that joins the items in the iteration order of the *)
(* item set; that order depends on the string hash seed of the process and *)
(* on the insertion history, so two equal item sets of several items may   *)
(* hash differently and the lookup may miss an equal member.               *)
(***************************************************************************)

\* the most lookups of one run that miss an equal member
MaxHashMisses == 1

\* Closure.__hash__ can differ between equal item sets of two or more items
hash_may_differ(sets) == Cardinality(sets) >= 2

\* find_label iterates the group, a set of closures, and returns the label
\* of the first equal member it meets
find_labels(sets, group) ==
    { group[i].label : i \in {j \in 1..Len(group) : group[j].sets = sets} }

\* the closure go_clos is labelled, added and recorded in c.goto
cg_add(st, c, literal, go_clos) ==
    LET label == st.label + 1 IN
    [st EXCEPT !.group = Append([st.group EXCEPT ![c].goto = DictSet(@, literal, label)],
                                Closure(go_clos, label)),
               !.label = label]

\* one pass of "for literal in all_symbols" for the dequeued closure at
\* position c: the states it can leave; st = [group, label, misses]
cg_literal_any(G, st, c, literal) ==
    LET go_clos == goto(G, st.group[c].sets, literal) IN
    IF go_clos = {} THEN {st}
    ELSE IF ~in_group(go_clos, st.group) THEN {cg_add(st, c, literal, go_clos)}
    ELSE { IF go_label # None /\ go_label # 0
           THEN [st EXCEPT !.group[c].goto = DictSet(@, literal, go_label)]
           ELSE st : go_label \in find_labels(go_clos, st.group) }
         \cup
         (IF hash_may_differ(go_clos) /\ st.misses < MaxHashMisses
          THEN {[cg_add(st, c, literal, go_clos) EXCEPT !.misses = @ + 1]}
          ELSE {})

RECURSIVE cg_symbols_any(_, _, _, _)
\* "for literal in all_symbols" from position k on, from each state of sts
cg_symbols_any(G, sts, c, k) ==
    IF k > Len(G.all_symbols) THEN sts
    ELSE cg_symbols_any(G,
            UNION { cg_literal_any(G, st, c, G.all_symbols[k]) : st \in sts },
            c, k + 1)

ShippedGrammars == {"regex", "demo"}

not_groups_vars == <<pattern, stream, lexeme, last, state_stack, arg_stack,
                     literal_machine, heap, machine, fed, skipped, raised,
                     input, result, not_matched, accept, row, pool, last_op, graph, call>>

\* generate_syntax_table() entered; closure_groups up to its while loop
GroupsInit ==
    /\ pc = "groups"
    /\ table_grammar \in ShippedGrammars
    /\ cg = [group |-> <<Closure(get_closure(GrammarOf(table_grammar),
                                             {start_item(GrammarOf(table_grammar))}), 0)>>,
             label |-> 0, misses |-> 0]
    /\ closure_pos = 1
    /\ row = <<>>
    /\ state_map = <<>>
    /\ raised = ""
    /\ accept = FALSE
    /\ heap = EmptyHeap
    /\ IdleRegex
    /\ IdleDriver
    /\ IdleThompson
    /\ IdleGraph

\* the loop of closure_groups putting the closure it took back at the end
\* of the queue
CgDequeue_requeues ==
    /\ pc = "groups"
    /\ closure_pos <= Len(cg.group)
    /\ cg' \in cg_symbols_any(GrammarOf(table_grammar), {cg}, closure_pos, 1)
    /\ closure_pos' = IF closure_pos = Len(cg'.group) THEN 1 ELSE closure_pos + 1
    /\ UNCHANGED <<pc, table_grammar, state_map>>
    /\ UNCHANGED not_groups_vars

\* closure_groups: c = q.get() and the loop over all_symbols
CgDequeue ==
    /\ pc = "groups"
    /\ closure_pos <= Len(cg.group)
    /\ cg' \in cg_symbols_any(GrammarOf(table_grammar), {cg}, closure_pos, 1)
    /\ closure_pos' = closure_pos + 1
    /\ UNCHANGED <<pc, table_grammar, state_map>>
    /\ UNCHANGED not_groups_vars

\* closure_groups: the queue is empty, return group; then get_states_map(g)
CgReturn ==
    /\ pc = "groups"
    /\ closure_pos > Len(cg.group)
    /\ state_map' = get_states_map(GrammarOf(table_grammar), cg.group)
    /\ pc' = "returned"
    /\ UNCHANGED <<cg, closure_pos, table_grammar>>
    /\ UNCHANGED not_groups_vars

NextGroups == CgDequeue \/ CgReturn

SpecGroups == GroupsInit /\ [][NextGroups]_vars

\* one turn of the interpreter inside the call: the loop takes the next
\* closure of the queue, or the call returns
CgRuns ==
    /\ pc = "groups"
    /\ \/ closure_pos' = closure_pos + 1 /\ pc' = pc
       \/ closure_pos' = closure_pos /\ pc' = "returned"

\* the interpreter keeps running the call until it returns
SpecGroupsFair == SpecGroups /\ WF_<<pc, closure_pos>>(CgRuns)

\* C18: generate_syntax_table terminates for both shipped grammars: first
\* and firsts return, the worklist of get_closure empties, and the worklist
\* of closure_groups empties after finitely many sets were labelled.
C18_GenerateSyntaxTableTerminates == <>(pc = "returned")

C18_Witness ==
    /\ pc = "returned"
    /\ table_grammar = "regex"
    /\ Len(cg.group) = 22
    /\ Len(state_map) = 22

\* C11: when closure_groups finishes for a shipped grammar, the N item sets
\* are pairwise unequal, the labels are exactly 0..N-1 without duplicates,
\* label 0 is the closure of the augmented start item with lookahead $, and
\* every non-empty GOTO(I, X) is recorded in I.goto[X] as the label of the
\* member equal to it.
C11_CollectionLabelsAndGotos ==
    (pc = "returned" /\ table_grammar \in ShippedGrammars /\ cg.group # <<>>) =>
        LET G == GrammarOf(table_grammar)
            group == cg.group
            N == Len(group)
        IN  /\ \A i, j \in 1..N : i # j => group[i].sets # group[j].sets
            /\ \A i, j \in 1..N : i # j => group[i].label # group[j].label
            /\ { group[i].label : i \in 1..N } = 0..(N - 1)
            /\ \E i \in 1..N : /\ group[i].label = 0
                               /\ group[i].sets = get_closure(G, {start_item(G)})
            /\ \A i \in 1..N : \A X \in Range(G.all_symbols) :
                  goto(G, group[i].sets, X) # {} =>
                     /\ X \in DOMAIN group[i].goto
                     /\ \E j \in 1..N : /\ group[j].label = group[i].goto[X]
                                        /\ group[j].sets = goto(G, group[i].sets, X)

(***************************************************************************)
(* first and get_closure called directly on a loaded module                *)
(* (regex/parsing_table.py or parser.py).                                  *)
(***************************************************************************)

\* the most items of a seed handed to get_closure
MaxSeed == 2

\* every item over the grammar: a production, a dot position, a lookahead
ItemsOf(G) ==
    UNION { { Item(G.grammar[p].head, G.grammar[p].body, d, a) :
                d \in 0..Len(G.grammar[p].body), a \in Range(G.terminals) } :
            p \in 1..Len(G.grammar) }

RECURSIVE SubsetsUpTo(_, _)
\* the subsets of S with at most n elements
SubsetsUpTo(S, n) ==
    IF n = 0 THEN {{}}
    ELSE LET P == SubsetsUpTo(S, n - 1) IN P \cup { q \cup {x} : q \in P, x \in S }

\* the seeds handed to get_closure: the non-empty item sets up to MaxSeed items
Seeds(G) == SubsetsUpTo(ItemsOf(G), MaxSeed) \ {{}}

not_lr_vars == <<pattern, stream, lexeme, last, state_stack, arg_stack,
                 literal_machine, heap, machine, fed, skipped, raised, input,
                 result, not_matched, accept, closure_pos, row, state_map, pool, last_op,
                 graph, cg>>

LrInit ==
    /\ pc = "loaded"
    /\ table_grammar \in ShippedGrammars
    /\ call = NoCall
    /\ closure_pos = 0
    /\ row = <<>>
    /\ state_map = <<>>
    /\ cg = NoCg
    /\ raised = ""
    /\ accept = FALSE
    /\ heap = EmptyHeap
    /\ IdleRegex
    /\ IdleDriver
    /\ IdleThompson
    /\ graph = NoGraph

\* first(symbol) for a symbol of the grammar
First ==
    /\ pc = "loaded"
    /\ \E symbol \in Range(GrammarOf(table_grammar).all_symbols) :
          call' = [op |-> "first", arg |-> symbol, raised |-> FALSE,
                   ret |-> first(GrammarOf(table_grammar), symbol), before |-> <<>>]
    /\ pc' = "called"
    /\ UNCHANGED table_grammar
    /\ UNCHANGED not_lr_vars

\* get_closure(Closure(seed), None).sets
GetClosure ==
    /\ pc = "loaded"
    /\ \E seed \in Seeds(GrammarOf(table_grammar)) :
          call' = [op |-> "get_closure", arg |-> seed, raised |-> FALSE,
                   ret |-> get_closure(GrammarOf(table_grammar), seed), before |-> <<>>]
    /\ pc' = "called"
    /\ UNCHANGED table_grammar
    /\ UNCHANGED not_lr_vars

NextLr == First \/ GetClosure

SpecLr == LrInit /\ [][NextLr]_vars

RECURSIVE RefNullable(_, _)
\* the nullable non-terminals: the least set N with A in N whenever some
\* A -> body has the epsilon body or a body all of whose symbols are in N
RefNullable(G, N) ==
    LET more == { G.grammar[p].head : p \in { q \in 1..Len(G.grammar) :
                     \/ G.grammar[q].body = G.eps
                     \/ \A k \in 1..Len(G.grammar[q].body) : G.grammar[q].body[k] \in N } }
    IN  IF more \subseteq N THEN N ELSE RefNullable(G, N \cup more)

\* FIRST of a symbol sequence under the FIRST sets F: the FIRST sets of the
\* leading symbols up to the first one that is not nullable
RefFirstOfSeq(G, F, seq) ==
    UNION { F[seq[k]] : k \in { j \in 1..Len(seq) :
                                  \A i \in 1..(j - 1) : seq[i] \in RefNullable(G, {}) } }

RECURSIVE RefFirstFix(_, _)
\* the least FIRST sets: {X} for a terminal X, and for a non-terminal the
\* union over its productions
RefFirstFix(G, F) ==
    LET F2 == [X \in Range(G.all_symbols) |->
                 IF X \in Range(G.terminals) THEN {X}
                 ELSE F[X] \cup UNION { RefFirstOfSeq(G, F, G.grammar[p].body) :
                         p \in { q \in 1..Len(G.grammar) :
                                   G.grammar[q].head = X /\ G.grammar[q].body # G.eps } }]
    IN  IF F2 = F THEN F ELSE RefFirstFix(G, F2)

RefFirst(G) == RefFirstFix(G, [X \in Range(G.all_symbols) |-> {}])

RefFirstRegex == RefFirst(RegexG)

RefFirstDemo == RefFirst(DemoG)

RefFirstOf(name) == IF name = "regex" THEN RefFirstRegex ELSE RefFirstDemo

\* C13: for every symbol X of a shipped grammar, first(X) is the reference
\* FIRST set: {X} for a terminal (as one symbol, also when its name has
\* several characters), and for a non-terminal the union over its
\* productions of the FIRST sets of the leading body symbols up to the
\* first non-nullable one.
C13_FirstIsReferenceFirst ==
    call.op = "first" => call.ret = RefFirstOf(table_grammar)[call.arg]

\* the items one item [A -> alpha . B beta, a] calls for
RefClosureStep(G, F, item) ==
    IF item.pos < Len(item.body) /\ item.body[item.pos + 1] \in Range(G.n_terminals)
    THEN { Item(G.grammar[p].head, G.grammar[p].body, 0, b) :
             p \in { q \in 1..Len(G.grammar) :
                       G.grammar[q].head = item.body[item.pos + 1] },
             b \in RefFirstOfSeq(G, F,
                      SubSeq(item.body, item.pos + 2, Len(item.body))
                          \o <<item.follow>>) }
    ELSE {}

RECURSIVE RefClosure(_, _, _)
\* the least set that contains I and the items its items call for
RefClosure(G, F, I) ==
    LET more == UNION { RefClosureStep(G, F, item) : item \in I } IN
    IF more \subseteq I THEN I ELSE RefClosure(G, F, I \cup more)

\* C14: for every seed over a shipped grammar, get_closure returns the
\* least set that contains the seed and, for each item [A -> alpha . B beta, a]
\* with B a non-terminal, each production B -> gamma and each terminal b in
\* FIRSTS(beta a), the item [B -> . gamma, b]; nothing else is added.
C14_GetClosureIsLeastClosure ==
    call.op = "get_closure" =>
        call.ret = RefClosure(GrammarOf(table_grammar), RefFirstOf(table_grammar), call.arg)

(***************************************************************************)
(* The stacks of the regex driver.                                         *)
(***************************************************************************)

\* the grammar symbol the LR state labelled k > 0 of the regex table stands
\* for: the symbol before the dot of the items the state was entered with
accessing_symbol(k) ==
    LET item == CHOOSE i \in regex_closure_groups[k + 1].sets : i.pos > 0
    IN  item.body[item.pos]

\* the symbols that carry a value: the letter token and the non-terminals
ValueSymbols == {"a"} \cup Range(n_terminals)

\* the entries of the state stack above the bottom whose symbol carries a value
value_entries ==
    { i \in 2..Len(state_stack) : accessing_symbol(state_stack[i]) \in ValueSymbols }

\* the parse loop is running and nothing was raised or accepted yet
driver_running ==
    /\ table_grammar = "regex"
    /\ pc \in {"lex", "ahead"}
    /\ literal_machine = <<>>
    /\ state_stack # <<>>

\* C15 as stated: every shift pushes the value of the token and every
\* reduce pops as many values as the body has symbols, so the value stack
\* has one entry per grammar symbol on the state stack (value stack height =
\* state stack height - 1).
C15_ValueStackHeight ==
    driver_running => Len(arg_stack) = Len(state_stack) - 1

\* C15 amended: only the shift of an `a` token pushes a value and a reduce
\* pops as many values as the template of the production has slots, so the
\* value stack has one entry per `a` or non-terminal symbol on the state
\* stack.
C15_ValueStackHeightAmended ==
    driver_running => Len(arg_stack) = Cardinality(value_entries)

C15_Witness ==
    /\ driver_running
    /\ pc = "ahead"
    /\ Len(state_stack) = 3
    /\ Len(arg_stack) = 1
    /\ arg_stack[1][1] = "induct_or"

\* C16: after alter_init_state(s) on any graph, with s different from the
\* old start, every path endpoint that was the old start is s, no path
\* refers to the old start, all other endpoints and all labels are
\* unchanged, and the start of the graph is s.
C16_AlterInitStateRewires ==
    call.op = "alter_init_state" =>
        \A s \in call.arg : \A old \in call.ret :
            /\ graph.start = s
            /\ \A i \in 1..Len(graph.paths) :
                  LET was == call.before[graph.paths[i]]
                      now == heap.paths[graph.paths[i]]
                  IN  /\ now.begin = (IF was.begin = old THEN s ELSE was.begin)
                      /\ now.end = (IF was.end = old THEN s ELSE was.end)
                      /\ now.label = was.label
                      /\ now.begin # old
                      /\ now.end # old

(***************************************************************************)
(* The two LR drivers side by side: RegexCompiler on the regex table and   *)
(* SDT on the demo table.                                                  *)
(***************************************************************************)

DriversInit == RegexInit \/ SdtInit

NextDrivers ==
    \/ table_grammar = "regex" /\ Next
    \/ table_grammar = "demo" /\ NextSDT

SpecDrivers == DriversInit /\ [][NextDrivers]_vars

\* self.get_action of the driver that is running
driver_get_action(state, literal) ==
    IF table_grammar = "regex" THEN get_action(state, literal)
    ELSE sdt_get_action(state, literal)

\* the driver is in ahead and the cell for the token is a reduce
at_reduce ==
    /\ pc = "ahead"
    /\ state_stack # <<>>
    /\ driver_get_action(state_stack[Len(state_stack)], lexeme.type).kind = "r"

\* the production the reduce at hand is by
reduce_production ==
    GrammarOf(table_grammar).grammar[
        driver_get_action(state_stack[Len(state_stack)], lexeme.type).n + 1]

\* the state stack holds labels of the table, and a reduce by A -> X1 .. Xn
\* finds n + 1 entries and a goto in the cell of the uncovered top and A
C17_StackAndGoto ==
    /\ state_stack # <<>>
    /\ \A i \in 1..Len(state_stack) :
          state_stack[i] \in 0..(Len(GroupOf(table_grammar)) - 1)
    /\ at_reduce =>
          /\ Len(state_stack) >= Len(reduce_production.body) + 1
          /\ LET popped == DropLast(state_stack, Len(reduce_production.body))
             IN  driver_get_action(popped[Len(popped)], reduce_production.head).kind = "g"

\* a reduce pushes the goto state and leaves the same token to be examined
C17_ReduceStep ==
    at_reduce =>
        LET popped == DropLast(state_stack, Len(reduce_production.body)) IN
        /\ state_stack' =
              Append(popped, driver_get_action(popped[Len(popped)], reduce_production.head).n)
        /\ pc' = "ahead"
        /\ lexeme' = lexeme
        /\ fed' = fed
        /\ stream' = stream

\* C17: in every configuration either LR driver reaches from state stack
\* [0], a reduce by A -> X1 .. Xn finds at least n + 1 entries on the state
\* stack, the cell table[s', A] of the uncovered top s' is a goto, that goto
\* state is pushed and the same token is examined again without being
\* consumed; the state stack is never empty and every entry is a label.
C17_ReduceFindsGoto == []C17_StackAndGoto /\ [][C17_ReduceStep]_vars

C17_Witness ==
    /\ table_grammar = "regex"
    /\ at_reduce
    /\ reduce_production.body = <<"S", "|", "D">>
    /\ Len(state_stack) > 4

====
